---- MODULE Spec2Model ----
(***************************************************************************)
(* A model of store/store.go: DefaultStore, the block store layered over   *)
(* a key-value datastore.  Two callers run store operations concurrently;  *)
(* every access to the shared height counter or to the datastore is one    *)
(* atomic step.                                                            *)
(***************************************************************************)
EXTENDS Integers, Sequences, FiniteSets, TLC

(* ------------------------------ bounds --------------------------------- *)
\* Block heights and offered heights range over 1..MaxHeight.
MaxHeight == 2
\* Total number of store operations started in one behaviour.
MaxCalls == 3
\* the largest height a key is derived for
MaxKeyHeight == 11
\* the number of keys compared with one another
MaxDerived == 2

Procs == {"p1", "p2"}
Heights == 1 .. MaxHeight
\* The header fields other than the height, the block data, the signatures.
HeaderTags == {1, 2}
Bodies == {1, 2}
Sigs == {1, 2}
\* Number of validators in a validator set; 0 is the empty set.
ValCounts == {0, 1}
ResponseData == {1, 2}

(* ------------------------------ values --------------------------------- *)
Headers == [height : Heights, tag : HeaderTags]
Blocks == [header : Headers, body : Bodies]
Commits == [sig : Sigs]
States == [lastBlockHeight : 0 .. MaxHeight, vals : ValCounts]
Responses == [data : ResponseData]
ValidatorSets == [n : ValCounts]
NoVal == [none |-> TRUE]

\* Errors are chains of messages, outermost first, the root cause last;
\* the nil error is the empty chain.
Nil == << >>
ErrNotFound == <<"datastore: key not found">>
ErrEngine == <<"engine failure">>
ErrDecode == <<"decode failure">>
ErrInvalidHashLength == <<"invalid hash length">>
ErrUnsupported == <<"failed to retrieve the ds.Datastore implementation">>
ErrNilValidators == <<"validator set is nil or empty">>

\* fmt.Errorf("msg: %w", err)
Wrap(msg, err) == <<msg>> \o err
\* errors.Is(err, target) for a root cause
Is(err, target) == err # Nil /\ <<err[Len(err)]>> = target

\* multierr.Append(left, right)
Append2(left, right) ==
    IF left = Nil THEN right
    ELSE IF right = Nil THEN left
    ELSE left \o right

(* ------------------------------- keys ---------------------------------- *)
blockPrefix == <<"b", "/">>
indexPrefix == <<"i", "/">>
commitPrefix == <<"c", "/">>
statePrefix == <<"s", "/">>
responsesPrefix == <<"r", "/">>
validatorsPrefix == <<"v", "/">>

\* len(hash) of a [32]byte
HashLen == 32

HexDigits == <<"0", "1", "2", "3", "4", "5", "6", "7", "8", "9", "a", "b", "c", "d", "e", "f">>

\* hex.EncodeToString: two lowercase digits per byte
RECURSIVE HexEncodeNoPad(_)
HexEncodeNoPad(bytes) ==
    IF bytes = << >> THEN << >>
    ELSE (IF Head(bytes) < 16 THEN << >> ELSE <<HexDigits[(Head(bytes) \div 16) + 1]>>)
         \o <<HexDigits[(Head(bytes) % 16) + 1]>> \o HexEncodeNoPad(Tail(bytes))
RECURSIVE HexEncode(_)
HexEncode(bytes) ==
    IF bytes = << >> THEN << >>
    ELSE <<HexDigits[(Head(bytes) \div 16) + 1], HexDigits[(Head(bytes) % 16) + 1]>>
         \o HexEncode(Tail(bytes))

\* strconv.FormatUint(n, 10)
RECURSIVE FormatUint(_)
FormatUint(n) ==
    IF n < 10 THEN <<HexDigits[n + 1]>>
    ELSE FormatUint(n \div 10) \o <<HexDigits[(n % 10) + 1]>>

getBlockKeyTruncated(hash) == blockPrefix \o HexEncode(SubSeq(hash, 1, 1))
getBlockKey(hash) == blockPrefix \o HexEncode(hash)

getCommitKeyNoHash(hash) == commitPrefix
getCommitKey(hash) == commitPrefix \o HexEncode(hash)

getIndexKey(h) == indexPrefix \o FormatUint(h)

getStateKey == statePrefix

getResponsesKey(h) == responsesPrefix \o FormatUint(h)

getValidatorsKeyResponsesPrefix(h) == responsesPrefix \o FormatUint(h)
getValidatorsKey(h) == validatorsPrefix \o FormatUint(h)

\* ds.NewKey: the key is rooted with a leading slash and cleaned, which
\* drops a trailing slash.
NewKey(s) ==
    LET t == <<"/">> \o s
    IN  IF Len(t) > 1 /\ t[Len(t)] = "/" THEN SubSeq(t, 1, Len(t) - 1) ELSE t

(* ------------------------------ codecs --------------------------------- *)
\* Header.Hash(): 32 bytes determined by the header.
HashOf(header) ==
    [i \in 1 .. HashLen |-> IF i = 1 THEN header.height
                            ELSE IF i = 2 THEN header.tag ELSE 0]
AllHashes == {HashOf(hd) : hd \in Headers}

\* Each record class has its own wire format; the first byte stands for
\* the structure a decoder of another class rejects.
BlockMarshal(b) == <<1, b.header.height, b.header.tag, b.body>>
BlockUnmarshal(blob) ==
    IF Len(blob) = 4 /\ blob[1] = 1
    THEN [err |-> Nil,
          val |-> [header |-> [height |-> blob[2], tag |-> blob[3]], body |-> blob[4]]]
    ELSE [err |-> ErrDecode, val |-> NoVal]

CommitMarshal(c) == <<2, c.sig>>
CommitUnmarshal(blob) ==
    IF Len(blob) = 2 /\ blob[1] = 2
    THEN [err |-> Nil, val |-> [sig |-> blob[2]]]
    ELSE [err |-> ErrDecode, val |-> NoVal]

\* State.ToProto and pb.State.Marshal: an empty validator set encodes.
StateMarshal(s) == <<3, s.lastBlockHeight, s.vals>>
StateUnmarshal(blob) ==
    IF Len(blob) = 3 /\ blob[1] = 3
    THEN [err |-> Nil, val |-> [lastBlockHeight |-> blob[2], vals |-> blob[3]]]
    ELSE [err |-> ErrDecode, val |-> NoVal]
\* State.FromProto: the conversion of an empty validator set fails.
StateFromProtoFails(pb) == pb.vals = 0

ResponsesMarshal(r) == <<4, r.data>>
ResponsesUnmarshal(blob) ==
    IF Len(blob) = 2 /\ blob[1] = 4
    THEN [err |-> Nil, val |-> [data |-> blob[2]]]
    ELSE [err |-> ErrDecode, val |-> NoVal]

ValidatorsMarshal(v) == <<5, v.n>>
ValidatorsUnmarshal(blob) ==
    IF Len(blob) = 2 /\ blob[1] = 5
    THEN [err |-> Nil, val |-> [n |-> blob[2]]]
    ELSE [err |-> ErrDecode, val |-> NoVal]
\* tmtypes.ValidatorSetFromProto: an empty validator set is rejected.
ValidatorSetFromProto(pb) ==
    IF pb.n = 0 THEN [err |-> ErrNilValidators, val |-> NoVal]
    ELSE [err |-> Nil, val |-> pb]

(* ---------------------------- datastore keys ---------------------------- *)
\* ds.NewKey(getBlockKey(hash)) and the like, tabulated over the hashes and
\* heights of the model.
KnownHashes == AllHashes \cup {[i \in 1 .. HashLen |-> 0]}
BlockKeyOf == [hash \in KnownHashes |-> NewKey(getBlockKey(hash))]
CommitKeyOf == [hash \in KnownHashes |-> NewKey(getCommitKey(hash))]
IndexKeyOf == [h \in Heights |-> NewKey(getIndexKey(h))]
ResponsesKeyOf == [h \in Heights |-> NewKey(getResponsesKey(h))]
ValidatorsKeyOf == [h \in Heights |-> NewKey(getValidatorsKey(h))]
StateKey == NewKey(getStateKey)
HashOfHeader == [hd \in Headers |-> HashOf(hd)]

(* ----------------------------- datastore -------------------------------- *)
\* The kinds of ds.Datastore a store can be built over; only the badger3
\* datastore passes the type assertion of SaveBlock.
EngineKinds == {"badger3", "other"}

\* badgerDS, ok := s.db.(*badger3.Datastore): the type assertion of SaveBlock
HasTxnAlways(e) == TRUE
HasTxn(e) == e = "badger3"

\* ds.Datastore.Get
Get(d, k) ==
    IF k \in DOMAIN d THEN [err |-> Nil, val |-> d[k]]
    ELSE [err |-> ErrNotFound, val |-> << >>]

\* ds.Datastore.Put, and Txn.Put on the writes a transaction has staged
Put(d, k, v) == (k :> v) @@ d

\* Txn.Commit: the staged writes become visible together, or not at all.
TxnCommitPartial(d, staged, ok) == staged @@ d
TxnCommit(d, staged, ok) == IF ok THEN staged @@ d ELSE d

(* ------------------------------- loads ---------------------------------- *)
ZeroHash == [i \in 1 .. HashLen |-> 0]

loadHashFromIndexLenFirst(d, h) ==
    LET g == Get(d, IndexKeyOf[h])
    IN  IF Len(g.val) # HashLen
        THEN [hash |-> ZeroHash, err |-> ErrInvalidHashLength]
        ELSE [hash |-> g.val, err |-> Nil]
loadHashFromIndexNoLenCheck(d, h) ==
    LET g == Get(d, IndexKeyOf[h])
    IN  IF g.err # Nil
        THEN [hash |-> ZeroHash,
              err |-> Wrap("failed to load block hash for height", g.err)]
        ELSE [hash |-> [i \in 1 .. HashLen |-> IF i <= Len(g.val) THEN g.val[i] ELSE 0],
              err |-> Nil]
loadHashFromIndex(d, h) ==
    LET g == Get(d, IndexKeyOf[h])
    IN  IF g.err # Nil
        THEN [hash |-> ZeroHash,
              err |-> Wrap("failed to load block hash for height", g.err)]
        ELSE IF Len(g.val) # HashLen
        THEN [hash |-> ZeroHash, err |-> ErrInvalidHashLength]
        ELSE [hash |-> g.val, err |-> Nil]

LoadBlockByHashResultCommitKey(d, hash) ==
    LET g == Get(d, CommitKeyOf[hash])
        u == BlockUnmarshal(g.val)
    IN  IF g.err # Nil
        THEN [err |-> Wrap("failed to load block data", g.err), val |-> NoVal]
        ELSE IF u.err # Nil
        THEN [err |-> Wrap("failed to unmarshal block data", u.err), val |-> NoVal]
        ELSE [err |-> Nil, val |-> u.val]
LoadBlockByHashResult(d, hash) ==
    LET g == Get(d, BlockKeyOf[hash])
        u == BlockUnmarshal(g.val)
    IN  IF g.err # Nil
        THEN [err |-> Wrap("failed to load block data", g.err), val |-> NoVal]
        ELSE IF u.err # Nil
        THEN [err |-> Wrap("failed to unmarshal block data", u.err), val |-> NoVal]
        ELSE [err |-> Nil, val |-> u.val]

LoadCommitByHashResult(d, hash) ==
    LET g == Get(d, CommitKeyOf[hash])
        u == CommitUnmarshal(g.val)
    IN  IF g.err # Nil
        THEN [err |-> Wrap("failed to retrieve commit from hash", g.err), val |-> NoVal]
        ELSE IF u.err # Nil
        THEN [err |-> Wrap("failed to marshal Commit into object", u.err), val |-> NoVal]
        ELSE [err |-> Nil, val |-> u.val]

LoadBlockResponsesResult(d, h) ==
    LET g == Get(d, ResponsesKeyOf[h])
        u == ResponsesUnmarshal(g.val)
    IN  IF g.err # Nil
        THEN [err |-> Wrap("failed to retrieve block results from height", g.err),
              val |-> NoVal]
        ELSE IF u.err # Nil
        THEN [err |-> Wrap("failed to unmarshal data", u.err), val |-> [data |-> 0]]
        ELSE [err |-> Nil, val |-> u.val]

LoadValidatorsResult(d, h) ==
    LET g == Get(d, ValidatorsKeyOf[h])
        u == ValidatorsUnmarshal(g.val)
    IN  IF g.err # Nil
        THEN [err |-> Wrap("failed to load Validators for height", g.err), val |-> NoVal]
        ELSE IF u.err # Nil
        THEN [err |-> Wrap("failed to unmarshal to protobuf", u.err), val |-> NoVal]
        ELSE ValidatorSetFromProto(u.val)

(* ------------------------------- state ---------------------------------- *)
VARIABLES
    engine,   \* DefaultStore.db: the kind of datastore behind the store
    db,       \* the committed content of the datastore: key -> bytes
    height,   \* DefaultStore.height
    pc,       \* where each caller stands in the operation it runs
    loc,      \* the locals of the running operation of each caller
    ret,      \* the last return: the caller, the operation, the height or
              \* hash it was called with, its error and value, and what
              \* became of the transaction it opened
    calls,    \* the number of operations started
    written,  \* history: every key a successful write has stored
    offered,  \* history: the largest height offered by a returned SetHeight
              \* or a successful SaveBlock
    saved,    \* history: the (block, commit) pairs of the successful
              \* SaveBlock calls, in the order of their commits
    lastState, \* history: the state the last successful UpdateState was given
    derived   \* history: the keys derived so far, each with the record
              \* class and the hash or height it was derived from

vars == <<engine, db, height, pc, loc, ret, calls, written, offered, saved,
          lastState, derived>>

NoLoc == [none |-> TRUE]
NoRet == [proc |-> "none", op |-> "none", arg |-> NoVal, err |-> Nil, val |-> NoVal,
          txn |-> "none"]

Max(a, b) == IF a > b THEN a ELSE b

\* New
Init ==
    /\ engine = "badger3"
    /\ db = << >>
    /\ height = 0
    /\ pc = [p \in Procs |-> "idle"]
    /\ loc = [p \in Procs |-> NoLoc]
    /\ ret = NoRet
    /\ calls = 0
    /\ written = {}
    /\ offered = 0
    /\ saved = << >>
    /\ lastState = NoVal
    /\ derived = {}

CanCall(p) == pc[p] = "idle" /\ calls < MaxCalls

Result(op, arg, err, val, txn) ==
    [op |-> op, arg |-> arg, err |-> err, val |-> val, txn |-> txn]

\* The caller p gets its result and is free for its next operation.
Return(p, r) ==
    /\ pc' = [pc EXCEPT ![p] = "idle"]
    /\ loc' = [loc EXCEPT ![p] = NoLoc]
    /\ ret' = [proc |-> p, op |-> r.op, arg |-> r.arg, err |-> r.err, val |-> r.val,
               txn |-> r.txn]

(* ------------------------- SetHeight and Height -------------------------- *)
\* storeHeight := atomic.LoadUint64(&s.height)
SetHeightLoad(p, h) ==
    /\ CanCall(p)
    /\ calls' = calls + 1
    /\ pc' = [pc EXCEPT ![p] = "sh_cas"]
    /\ loc' = [loc EXCEPT ![p] = [height |-> h, storeHeight |-> height]]
    /\ UNCHANGED <<engine, db, height, ret, written, offered, saved, lastState, derived>>

\* atomic.CompareAndSwapUint64(&s.height, old, new)
CompareAndSwapAlways(cur, old, new) == new
CompareAndSwap(cur, old, new) == IF cur = old THEN new ELSE cur

\* if height > storeHeight { CompareAndSwap }, then the call returns
SetHeightCASUnguarded(p) ==
    /\ pc[p] = "sh_cas"
    /\ height' = CompareAndSwap(height, loc[p].storeHeight, loc[p].height)
    /\ offered' = Max(offered, loc[p].height)
    /\ Return(p, Result("SetHeight", loc[p].height, Nil, NoVal, "none"))
    /\ UNCHANGED <<engine, db, calls, written, saved, lastState, derived>>
SetHeightCAS(p) ==
    /\ pc[p] = "sh_cas"
    /\ height' = IF loc[p].height > loc[p].storeHeight
                 THEN CompareAndSwap(height, loc[p].storeHeight, loc[p].height)
                 ELSE height
    /\ offered' = Max(offered, loc[p].height)
    /\ Return(p, Result("SetHeight", loc[p].height, Nil, NoVal, "none"))
    /\ UNCHANGED <<engine, db, calls, written, saved, lastState, derived>>

\* Height
Height(p) ==
    /\ CanCall(p)
    /\ calls' = calls + 1
    /\ Return(p, Result("Height", NoVal, Nil, [h |-> height], "none"))
    /\ UNCHANGED <<engine, db, height, written, offered, saved, lastState, derived>>

(* ------------------------------ SaveBlock -------------------------------- *)
\* The key and the value of the n-th of the three writes of SaveBlock.
SaveBlockKey(block, n) ==
    IF n = 1 THEN BlockKeyOf[HashOfHeader[block.header]]
    ELSE IF n = 2 THEN CommitKeyOf[HashOfHeader[block.header]]
    ELSE IndexKeyOf[block.header.height]
SaveBlockValueZeroIndex(block, commit, n) ==
    IF n = 1 THEN BlockMarshal(block)
    ELSE IF n = 2 THEN CommitMarshal(commit)
    ELSE [i \in 1 .. HashLen |-> 0]
SaveBlockValue(block, commit, n) ==
    IF n = 1 THEN BlockMarshal(block)
    ELSE IF n = 2 THEN CommitMarshal(commit)
    ELSE HashOfHeader[block.header]

\* err = multierr.Append(err, bb.Put(...)), three times: each write is
\* staged in the transaction unless the engine refuses it (n \in failed);
\* the next write is tried either way.
RECURSIVE StagePutsDropErr(_, _, _, _, _)
StagePutsDropErr(block, commit, failed, n, acc) ==
    IF n > 3 THEN acc
    ELSE StagePutsDropErr(block, commit, failed, n + 1,
             IF n \in failed
             THEN acc
             ELSE [acc EXCEPT !.staged = Put(acc.staged, SaveBlockKey(block, n),
                                             SaveBlockValue(block, commit, n))])
RECURSIVE StagePuts(_, _, _, _, _)
StagePuts(block, commit, failed, n, acc) ==
    IF n > 3 THEN acc
    ELSE StagePuts(block, commit, failed, n + 1,
             IF n \in failed
             THEN [acc EXCEPT !.err = Append2(acc.err, ErrEngine)]
             ELSE [acc EXCEPT !.staged = Put(acc.staged, SaveBlockKey(block, n),
                                             SaveBlockValue(block, commit, n))])

\* hash, blockBlob, commitBlob; the type assertion on s.db; NewTransaction;
\* the three Puts into the transaction, which no other caller sees; and
\* if err != nil { bb.Discard(s.ctx); return err }
SaveBlockStage(p, block, commit) ==
    /\ CanCall(p)
    /\ calls' = calls + 1
    /\ \E ok \in BOOLEAN, failed \in SUBSET {1, 2, 3} :
         IF ~HasTxn(engine)
         THEN /\ ok /\ failed = {}
              /\ Return(p, Result("SaveBlock", block.header.height, ErrUnsupported,
                                  NoVal, "none"))
         ELSE IF ~ok
         THEN /\ failed = {}
              /\ Return(p, Result("SaveBlock", block.header.height,
                                  Wrap("failed to create a new batch for transaction",
                                       ErrEngine), NoVal, "none"))
         ELSE LET t == StagePuts(block, commit, failed, 1,
                                 [err |-> Nil, staged |-> << >>])
              IN  IF t.err # Nil
                  THEN Return(p, Result("SaveBlock", block.header.height, t.err,
                                        NoVal, "discarded"))
                  ELSE /\ pc' = [pc EXCEPT ![p] = "sb_commit"]
                       /\ loc' = [loc EXCEPT ![p] =
                                     [block |-> block, commit |-> commit,
                                      staged |-> t.staged]]
                       /\ UNCHANGED ret
    /\ UNCHANGED <<engine, db, height, written, offered, saved, lastState, derived>>

\* A load that has read the index and not yet the record it points to sees
\* a SaveBlock commit in between (history, kept in the load's locals).
MarkReaders(p) ==
    [q \in Procs |->
        IF q # p /\ pc[q] \in {"lb_get", "lc_get"}
        THEN [loc[q] EXCEPT !.dirty = TRUE]
        ELSE IF q = p THEN NoLoc ELSE loc[q]]

\* if err = bb.Commit(s.ctx); err != nil { return wrapped }; return nil
SaveBlockCommit(p) ==
    /\ pc[p] = "sb_commit"
    /\ \E ok \in BOOLEAN :
         LET l == loc[p]
         IN  /\ db' = TxnCommit(db, l.staged, ok)
             /\ pc' = [pc EXCEPT ![p] = "idle"]
             /\ IF ok
                THEN /\ ret' = [proc |-> p, op |-> "SaveBlock",
                                arg |-> l.block.header.height, err |-> Nil,
                                val |-> NoVal, txn |-> "committed"]
                     /\ loc' = MarkReaders(p)
                     /\ written' = written \cup DOMAIN l.staged
                     /\ offered' = Max(offered, l.block.header.height)
                     /\ saved' = Append(saved, [block |-> l.block, commit |-> l.commit])
                ELSE /\ ret' = [proc |-> p, op |-> "SaveBlock",
                                arg |-> l.block.header.height,
                                err |-> Wrap("failed to commit transaction", ErrEngine),
                                val |-> NoVal, txn |-> "open"]
                     /\ loc' = [loc EXCEPT ![p] = NoLoc]
                     /\ UNCHANGED <<written, offered, saved>>
    /\ UNCHANGED <<engine, height, calls, lastState, derived>>

(* ---------------------------- block loads -------------------------------- *)
\* LoadBlock: h, err := s.loadHashFromIndex(height)
LoadBlockIndex(p, h) ==
    /\ CanCall(p)
    /\ calls' = calls + 1
    /\ LET r == loadHashFromIndex(db, h)
       IN  IF r.err # Nil
           THEN Return(p, Result("LoadBlock", h,
                                 Wrap("failed to load hash from index", r.err),
                                 NoVal, "none"))
           ELSE /\ pc' = [pc EXCEPT ![p] = "lb_get"]
                /\ loc' = [loc EXCEPT ![p] =
                              [height |-> h, hash |-> r.hash, dirty |-> FALSE]]
                /\ UNCHANGED ret
    /\ UNCHANGED <<engine, db, height, written, offered, saved, lastState, derived>>

\* LoadBlock: return s.LoadBlockByHash(h)
LoadBlockGet(p) ==
    /\ pc[p] = "lb_get"
    /\ LET r == LoadBlockByHashResult(db, loc[p].hash)
       IN  Return(p, Result("LoadBlock", loc[p].height, r.err, r.val, "none"))
    /\ UNCHANGED <<engine, db, height, calls, written, offered, saved, lastState, derived>>

\* LoadBlockByHash
LoadBlockByHash(p, hash) ==
    /\ CanCall(p)
    /\ calls' = calls + 1
    /\ LET r == LoadBlockByHashResult(db, hash)
       IN  Return(p, Result("LoadBlockByHash", hash, r.err, r.val, "none"))
    /\ UNCHANGED <<engine, db, height, written, offered, saved, lastState, derived>>

\* LoadCommit: hash, err := s.loadHashFromIndex(height)
LoadCommitIndex(p, h) ==
    /\ CanCall(p)
    /\ calls' = calls + 1
    /\ LET r == loadHashFromIndex(db, h)
       IN  IF r.err # Nil
           THEN Return(p, Result("LoadCommit", h,
                                 Wrap("failed to load hash from index", r.err),
                                 NoVal, "none"))
           ELSE /\ pc' = [pc EXCEPT ![p] = "lc_get"]
                /\ loc' = [loc EXCEPT ![p] =
                              [height |-> h, hash |-> r.hash, dirty |-> FALSE]]
                /\ UNCHANGED ret
    /\ UNCHANGED <<engine, db, height, written, offered, saved, lastState, derived>>

\* LoadCommit: return s.LoadCommitByHash(hash)
LoadCommitGet(p) ==
    /\ pc[p] = "lc_get"
    /\ LET r == LoadCommitByHashResult(db, loc[p].hash)
       IN  Return(p, Result("LoadCommit", loc[p].height, r.err, r.val, "none"))
    /\ UNCHANGED <<engine, db, height, calls, written, offered, saved, lastState, derived>>

\* LoadCommitByHash
LoadCommitByHash(p, hash) ==
    /\ CanCall(p)
    /\ calls' = calls + 1
    /\ LET r == LoadCommitByHashResult(db, hash)
       IN  Return(p, Result("LoadCommitByHash", hash, r.err, r.val, "none"))
    /\ UNCHANGED <<engine, db, height, written, offered, saved, lastState, derived>>

(* ------------------- responses, validators, chain state ------------------- *)
\* SaveBlockResponses: one write, which the engine may refuse
SaveBlockResponses(p, h, responses) ==
    /\ CanCall(p)
    /\ calls' = calls + 1
    /\ \E ok \in BOOLEAN :
         /\ db' = IF ok THEN Put(db, ResponsesKeyOf[h], ResponsesMarshal(responses))
                  ELSE db
         /\ written' = IF ok THEN written \cup {ResponsesKeyOf[h]} ELSE written
         /\ Return(p, Result("SaveBlockResponses", h, IF ok THEN Nil ELSE ErrEngine,
                             NoVal, "none"))
    /\ UNCHANGED <<engine, height, offered, saved, lastState, derived>>

\* LoadBlockResponses
LoadBlockResponses(p, h) ==
    /\ CanCall(p)
    /\ calls' = calls + 1
    /\ LET r == LoadBlockResponsesResult(db, h)
       IN  Return(p, Result("LoadBlockResponses", h, r.err, r.val, "none"))
    /\ UNCHANGED <<engine, db, height, written, offered, saved, lastState, derived>>

\* SaveValidators: one write, which the engine may refuse
SaveValidators(p, h, validatorSet) ==
    /\ CanCall(p)
    /\ calls' = calls + 1
    /\ \E ok \in BOOLEAN :
         /\ db' = IF ok THEN Put(db, ValidatorsKeyOf[h], ValidatorsMarshal(validatorSet))
                  ELSE db
         /\ written' = IF ok THEN written \cup {ValidatorsKeyOf[h]} ELSE written
         /\ Return(p, Result("SaveValidators", h, IF ok THEN Nil ELSE ErrEngine,
                             NoVal, "none"))
    /\ UNCHANGED <<engine, height, offered, saved, lastState, derived>>

\* LoadValidators
LoadValidators(p, h) ==
    /\ CanCall(p)
    /\ calls' = calls + 1
    /\ LET r == LoadValidatorsResult(db, h)
       IN  Return(p, Result("LoadValidators", h, r.err, r.val, "none"))
    /\ UNCHANGED <<engine, db, height, written, offered, saved, lastState, derived>>

\* UpdateState: one write, which the engine may refuse
UpdateStateKeepFirst(p, state) ==
    /\ CanCall(p)
    /\ calls' = calls + 1
    /\ \E ok \in BOOLEAN :
         /\ db' = IF ok THEN db @@ (StateKey :> StateMarshal(state)) ELSE db
         /\ written' = IF ok THEN written \cup {StateKey} ELSE written
         /\ lastState' = IF ok THEN state ELSE lastState
         /\ Return(p, Result("UpdateState", NoVal, IF ok THEN Nil ELSE ErrEngine,
                             NoVal, "none"))
    /\ UNCHANGED <<engine, height, offered, saved, derived>>
UpdateState(p, state) ==
    /\ CanCall(p)
    /\ calls' = calls + 1
    /\ \E ok \in BOOLEAN :
         /\ db' = IF ok THEN Put(db, StateKey, StateMarshal(state)) ELSE db
         /\ written' = IF ok THEN written \cup {StateKey} ELSE written
         /\ lastState' = IF ok THEN state ELSE lastState
         /\ Return(p, Result("UpdateState", NoVal, IF ok THEN Nil ELSE ErrEngine,
                             NoVal, "none"))
    /\ UNCHANGED <<engine, height, offered, saved, derived>>

\* LoadState: blob, err := s.db.Get(...); err = pbState.Unmarshal(blob)
LoadStateGet(p) ==
    /\ CanCall(p)
    /\ calls' = calls + 1
    /\ LET g == Get(db, StateKey)
           u == StateUnmarshal(g.val)
       IN  IF g.err # Nil
           THEN Return(p, Result("LoadState", NoVal,
                                 Wrap("failed to retrieve state", g.err), NoVal, "none"))
           ELSE IF u.err # Nil
           THEN Return(p, Result("LoadState", NoVal,
                                 Wrap("failed to unmarshal state from JSON", u.err),
                                 NoVal, "none"))
           ELSE /\ pc' = [pc EXCEPT ![p] = "ls_store"]
                /\ loc' = [loc EXCEPT ![p] = [pbState |-> u.val]]
                /\ UNCHANGED ret
    /\ UNCHANGED <<engine, db, height, written, offered, saved, lastState, derived>>

\* atomic.StoreUint64(&s.height, uint64(state.LastBlockHeight))
ReseedHeightMax(cur, last) == Max(cur, last)
ReseedHeight(cur, last) == last

\* LoadState: err = state.FromProto(&pbState); the store to s.height;
\* return state, err.  A failed conversion leaves the state partly filled:
\* its LastBlockHeight is the decoded one or still zero.
LoadStateStore(p) ==
    /\ pc[p] = "ls_store"
    /\ LET pb == loc[p].pbState
       IN  \E last \in (IF StateFromProtoFails(pb) THEN {0, pb.lastBlockHeight}
                                                    ELSE {pb.lastBlockHeight}) :
             /\ height' = ReseedHeight(height, last)
             /\ Return(p, Result("LoadState", NoVal,
                                 IF StateFromProtoFails(pb) THEN ErrNilValidators ELSE Nil,
                                 [lastBlockHeight |-> last, vals |-> pb.vals], "none"))
    /\ UNCHANGED <<engine, db, calls, written, offered, saved, lastState, derived>>

(* --------------------------- specifications ------------------------------- *)
Next ==
    \/ \E p \in Procs, h \in Heights : SetHeightLoad(p, h)
    \/ \E p \in Procs : SetHeightCAS(p)
    \/ \E p \in Procs : Height(p)
    \/ \E p \in Procs, b \in Blocks, c \in Commits : SaveBlockStage(p, b, c)
    \/ \E p \in Procs : SaveBlockCommit(p)
    \/ \E p \in Procs, h \in Heights : LoadBlockIndex(p, h)
    \/ \E p \in Procs : LoadBlockGet(p)
    \/ \E p \in Procs, hash \in AllHashes : LoadBlockByHash(p, hash)
    \/ \E p \in Procs, h \in Heights : LoadCommitIndex(p, h)
    \/ \E p \in Procs : LoadCommitGet(p)
    \/ \E p \in Procs, hash \in AllHashes : LoadCommitByHash(p, hash)
    \/ \E p \in Procs, h \in Heights, r \in Responses : SaveBlockResponses(p, h, r)
    \/ \E p \in Procs, h \in Heights : LoadBlockResponses(p, h)
    \/ \E p \in Procs, h \in Heights, v \in ValidatorSets : SaveValidators(p, h, v)
    \/ \E p \in Procs, h \in Heights : LoadValidators(p, h)
    \/ \E p \in Procs, s \in States : UpdateState(p, s)
    \/ \E p \in Procs : LoadStateGet(p)
    \/ \E p \in Procs : LoadStateStore(p)

Spec == Init /\ [][Next]_vars

\* The store driven by concurrent height offers alone.
NextOffers ==
    \/ \E p \in Procs, h \in Heights : SetHeightLoad(p, h)
    \/ \E p \in Procs : SetHeightCAS(p)
    \/ \E p \in Procs : Height(p)

SpecOffers == Init /\ [][NextOffers]_vars

\* The identifiers keys are derived from: heights of one and two digits,
\* and hashes whose first bytes have one and two hex digits.
KeyHeights == 0 .. MaxKeyHeight
KeyBytes == {0, 1, 16, 17}
KeyHashes ==
    {[i \in 1 .. HashLen |-> IF i = 1 THEN a ELSE IF i = 2 THEN b ELSE 0] :
        a \in KeyBytes, b \in KeyBytes}

\* One more key is derived: the record class, the identifier, the key the
\* store's function returns and the datastore key made of it.
Derive(class, id, key) ==
    /\ Cardinality(derived) < MaxDerived
    /\ derived' = derived \cup
                     {[class |-> class, id |-> id, key |-> key, dsKey |-> NewKey(key)]}
    /\ UNCHANGED <<engine, db, height, pc, loc, ret, calls, written, offered, saved,
                   lastState>>

DeriveBlockKey(hash) == Derive("block", hash, getBlockKey(hash))
DeriveCommitKey(hash) == Derive("commit", hash, getCommitKey(hash))
DeriveIndexKey(h) == Derive("index", h, getIndexKey(h))
DeriveStateKey == Derive("state", NoVal, getStateKey)
DeriveResponsesKey(h) == Derive("responses", h, getResponsesKey(h))
DeriveValidatorsKey(h) == Derive("validators", h, getValidatorsKey(h))

NextKeys ==
    \/ \E hash \in KeyHashes : DeriveBlockKey(hash)
    \/ \E hash \in KeyHashes : DeriveCommitKey(hash)
    \/ \E h \in KeyHeights : DeriveIndexKey(h)
    \/ DeriveStateKey
    \/ \E h \in KeyHeights : DeriveResponsesKey(h)
    \/ \E h \in KeyHeights : DeriveValidatorsKey(h)

SpecKeys == Init /\ [][NextKeys]_vars

\* Index values that are no hash: one byte short, one byte long.
CorruptHashes == {[i \in 1 .. HashLen - 1 |-> 0], [i \in 1 .. HashLen + 1 |-> 0]}

\* New over a datastore that already holds the index entry of one height,
\* with a value that is no hash.
InitCorrupt ==
    /\ engine = "badger3"
    /\ \E h \in Heights, v \in CorruptHashes : db = (IndexKeyOf[h] :> v)
    /\ height = 0
    /\ pc = [p \in Procs |-> "idle"]
    /\ loc = [p \in Procs |-> NoLoc]
    /\ ret = NoRet
    /\ calls = 0
    /\ written = {}
    /\ offered = 0
    /\ saved = << >>
    /\ lastState = NoVal
    /\ derived = {}

\* The block operations of the store over that datastore.
NextCorrupt ==
    \/ \E p \in Procs, b \in Blocks, c \in Commits : SaveBlockStage(p, b, c)
    \/ \E p \in Procs : SaveBlockCommit(p)
    \/ \E p \in Procs, h \in Heights : LoadBlockIndex(p, h)
    \/ \E p \in Procs : LoadBlockGet(p)
    \/ \E p \in Procs, h \in Heights : LoadCommitIndex(p, h)
    \/ \E p \in Procs : LoadCommitGet(p)

SpecCorrupt == InitCorrupt /\ [][NextCorrupt]_vars

\* New over a datastore without transactions.
InitOther ==
    /\ engine = "other"
    /\ db = << >>
    /\ height = 0
    /\ pc = [p \in Procs |-> "idle"]
    /\ loc = [p \in Procs |-> NoLoc]
    /\ ret = NoRet
    /\ calls = 0
    /\ written = {}
    /\ offered = 0
    /\ saved = << >>
    /\ lastState = NoVal
    /\ derived = {}

\* SaveBlock, the loads and the single-key writes over that datastore; no
\* SaveBlock gets to its commit and no load by height finds an index entry.
NextOther ==
    \/ \E p \in Procs, b \in Blocks, c \in Commits : SaveBlockStage(p, b, c)
    \/ \E p \in Procs, h \in Heights : LoadBlockIndex(p, h)
    \/ \E p \in Procs, hash \in AllHashes : LoadBlockByHash(p, hash)
    \/ \E p \in Procs, h \in Heights : LoadCommitIndex(p, h)
    \/ \E p \in Procs, hash \in AllHashes : LoadCommitByHash(p, hash)
    \/ \E p \in Procs, h \in Heights, r \in Responses : SaveBlockResponses(p, h, r)
    \/ \E p \in Procs, h \in Heights : LoadBlockResponses(p, h)
    \/ \E p \in Procs, h \in Heights, v \in ValidatorSets : SaveValidators(p, h, v)
    \/ \E p \in Procs, h \in Heights : LoadValidators(p, h)
    \/ \E p \in Procs, s \in States : UpdateState(p, s)
    \/ \E p \in Procs : LoadStateGet(p)
    \/ \E p \in Procs : LoadStateStore(p)

SpecOther == InitOther /\ [][NextOther]_vars

(* ------------------------------ properties ------------------------------- *)
HasKey(k) == k \in DOMAIN db

\* This step is the return of operation op to the caller p.
Returned(p, op) ==
    /\ ret'.proc = p
    /\ ret'.op = op
    /\ pc'[p] = "idle"
    /\ \/ pc[p] # "idle"
       \/ pc' = pc /\ calls' = calls + 1

\* This step is the step of LoadState that stores to the height counter.
IsLoadStateStore == \E p \in Procs : pc[p] = "ls_store" /\ pc'[p] = "idle"

\* The pair the last successful SaveBlock stored for height h, or NoVal.
RECURSIVE LastAtFrom(_, _)
LastAtFrom(h, n) ==
    IF n = 0 THEN NoVal
    ELSE IF saved[n].block.header.height = h THEN saved[n]
    ELSE LastAtFrom(h, n - 1)
LastAt(h) == LastAtFrom(h, Len(saved))

\* C1: with SetHeight and SaveBlock calls only, the counter is at least
\* the largest height offered by the calls that have returned.
C1_HeightCoversOffers == height >= offered

\* C2: when a SaveBlock returns without error, the counter is at least the
\* height of the block it saved.
C2_SaveBlockRaisesHeight ==
    [][\A p \in Procs :
          (Returned(p, "SaveBlock") /\ ret'.err = Nil) => height' >= ret'.arg]_vars

\* C3: a SaveBlock whose transaction fails (a staged write is refused, or
\* the commit fails) leaves the datastore as it was: neither staging nor a
\* failed return changes a committed entry.
C3_FailedSaveBlockWritesNothing ==
    [][\A p \in Procs :
          (\/ pc[p] = "idle" /\ pc'[p] = "sb_commit"
           \/ Returned(p, "SaveBlock") /\ ret'.err # Nil)
          => db' = db /\ written' = written]_vars

C3_Witness ==
    /\ ret.op = "SaveBlock"
    /\ ret.txn = "discarded"
    /\ Len(ret.err) \in {1, 2}
    /\ saved # << >>
    /\ \E p \in Procs : pc[p] = "sb_commit"

\* C4: in every state, an index entry for a height holds the hash of a
\* stored block and a stored commit; a block is stored exactly when its
\* commit is; every stored block has an index entry at its height; and no
\* LoadBlock or LoadCommit that found the index entry misses the record.
C4_IndexIffPair ==
    /\ \A h \in Heights :
          HasKey(IndexKeyOf[h]) =>
             /\ db[IndexKeyOf[h]] \in AllHashes
             /\ HasKey(BlockKeyOf[db[IndexKeyOf[h]]])
             /\ HasKey(CommitKeyOf[db[IndexKeyOf[h]]])
    /\ \A hash \in AllHashes :
          /\ HasKey(BlockKeyOf[hash]) <=> HasKey(CommitKeyOf[hash])
          /\ HasKey(BlockKeyOf[hash]) =>
                /\ BlockUnmarshal(db[BlockKeyOf[hash]]).err = Nil
                /\ HasKey(IndexKeyOf[BlockUnmarshal(db[BlockKeyOf[hash]]).val.header.height])
    /\ \A h \in Heights :
          HasKey(IndexKeyOf[h]) <=>
             \E hash \in AllHashes :
                /\ HasKey(BlockKeyOf[hash]) /\ HasKey(CommitKeyOf[hash])
                /\ BlockUnmarshal(db[BlockKeyOf[hash]]).val.header.height = h
    /\ ret.op = "LoadBlock" /\ ret.err # Nil =>
          ret.err[1] = "failed to load hash from index"
    /\ ret.op = "LoadCommit" /\ ret.err # Nil =>
          ret.err[1] = "failed to load hash from index"

C4_Witness ==
    \E p, q \in Procs :
       /\ pc[p] = "sb_commit"
       /\ pc[q] = "lb_get"
       /\ loc[p].block.header.height = loc[q].height
       /\ HashOfHeader[loc[p].block.header] # loc[q].hash

\* C5 as stated: no step of any operation decreases the counter.
C5_HeightNeverDecreases == [][height' >= height]_vars

\* C5 as amended: no step other than the store of LoadState decreases the
\* counter.
C5_HeightNeverDecreasesButLoadState ==
    [][~IsLoadStateStore => height' >= height]_vars

C5_Witness ==
    /\ ret.op = "SetHeight"
    /\ ret.arg < height
    /\ HasKey(StateKey)

\* C6: a LoadState that returns without error leaves the counter equal to
\* the last block height of the state it decoded and returns, whatever the
\* counter was.
C6_LoadStateReseeds ==
    [][\A p \in Procs :
          (Returned(p, "LoadState") /\ ret'.err = Nil)
          => /\ pc[p] = "ls_store"
             /\ ret'.val = loc[p].pbState
             /\ height' = loc[p].pbState.lastBlockHeight]_vars

C6_Witness ==
    /\ ret.op = "LoadState"
    /\ ret.err = Nil
    /\ height = ret.val.lastBlockHeight
    /\ offered > height

\* C7: a LoadBlock of a height, with no SaveBlock committing while it runs,
\* and a LoadBlockByHash of the hash of the block last saved for a height
\* both return, without error, exactly the block that the last successful
\* SaveBlock for that height was given.
C7_SaveThenLoadRoundTrip ==
    [][\A p \in Procs :
          /\ (Returned(p, "LoadBlock") /\ LastAt(ret'.arg) # NoVal)
             => /\ pc[p] = "lb_get"
                /\ ~loc[p].dirty
                   => ret'.err = Nil /\ ret'.val = LastAt(ret'.arg).block
          /\ Returned(p, "LoadBlockByHash")
             => \A h \in Heights :
                   (LastAt(h) # NoVal /\ HashOfHeader[LastAt(h).block.header] = ret'.arg)
                   => ret'.err = Nil /\ ret'.val = LastAt(h).block]_vars

C7_Witness ==
    /\ ret.op = "LoadBlock"
    /\ ret.err = Nil
    /\ Len(saved) = 2
    /\ saved[1].block.header = saved[2].block.header
    /\ saved[1].block.body # saved[2].block.body
    /\ ret.val = saved[2].block

\* C8: when a SaveBlock that opened a transaction returns an error, the
\* transaction has been discarded.
C8_ErrorAfterOpenDiscards ==
    (ret.op = "SaveBlock" /\ ret.err # Nil /\ ret.txn # "none") => ret.txn = "discarded"

\* C9 as stated: no step changes or deletes the bytes stored under a block
\* key or a commit key.
C9_PairsImmutable ==
    [][\A hash \in AllHashes :
          /\ HasKey(BlockKeyOf[hash]) =>
                /\ BlockKeyOf[hash] \in DOMAIN db'
                /\ db'[BlockKeyOf[hash]] = db[BlockKeyOf[hash]]
          /\ HasKey(CommitKeyOf[hash]) =>
                /\ CommitKeyOf[hash] \in DOMAIN db'
                /\ db'[CommitKeyOf[hash]] = db[CommitKeyOf[hash]]]_vars

\* C9 as amended: the entries under the block key and the commit key of a
\* hash are never deleted, and the only step that changes them is the
\* commit of a SaveBlock whose block has that hash, which stores that
\* call's block and commit.
C9_PairsChangeOnlyBySameHashSave ==
    [][\A hash \in AllHashes :
          (HasKey(BlockKeyOf[hash]) /\ HasKey(CommitKeyOf[hash])) =>
             /\ BlockKeyOf[hash] \in DOMAIN db'
             /\ CommitKeyOf[hash] \in DOMAIN db'
             /\ (\/ db'[BlockKeyOf[hash]] # db[BlockKeyOf[hash]]
                 \/ db'[CommitKeyOf[hash]] # db[CommitKeyOf[hash]])
                => \E p \in Procs :
                      /\ Returned(p, "SaveBlock") /\ ret'.err = Nil
                      /\ pc[p] = "sb_commit"
                      /\ HashOfHeader[loc[p].block.header] = hash
                      /\ db'[BlockKeyOf[hash]] = BlockMarshal(loc[p].block)
                      /\ db'[CommitKeyOf[hash]] = CommitMarshal(loc[p].commit)]_vars

C9_Witness ==
    /\ Len(saved) = 2
    /\ saved[1].block.header = saved[2].block.header
    /\ saved[1] # saved[2]
    /\ db[BlockKeyOf[HashOfHeader[saved[1].block.header]]] = BlockMarshal(saved[2].block)
    /\ db[CommitKeyOf[HashOfHeader[saved[1].block.header]]] = CommitMarshal(saved[2].commit)
    /\ ret.op \notin {"SaveBlock", "none"}

\* C10: LoadBlock, LoadCommit, LoadBlockResponses and LoadValidators of a
\* height whose key was never written return at once with an error whose
\* cause is the engine's not-found error, and change neither the datastore
\* nor the counter.
NotFoundReturn == Is(ret'.err, ErrNotFound) /\ db' = db /\ height' = height
C10_UnwrittenHeightNotFound ==
    [][\A p \in Procs :
          /\ (pc[p] = "idle" /\ pc'[p] \in {"lb_get", "lc_get"})
             => IndexKeyOf[loc'[p].height] \in written
          /\ (Returned(p, "LoadBlock") /\ IndexKeyOf[ret'.arg] \notin written)
             => NotFoundReturn
          /\ (Returned(p, "LoadCommit") /\ IndexKeyOf[ret'.arg] \notin written)
             => NotFoundReturn
          /\ (Returned(p, "LoadBlockResponses") /\ ResponsesKeyOf[ret'.arg] \notin written)
             => NotFoundReturn
          /\ (Returned(p, "LoadValidators") /\ ValidatorsKeyOf[ret'.arg] \notin written)
             => NotFoundReturn]_vars

C10_Witness ==
    /\ ret.op = "LoadCommit"
    /\ Is(ret.err, ErrNotFound)
    /\ IndexKeyOf[ret.arg] \notin written
    /\ \E h \in Heights : IndexKeyOf[h] \in written

\* This step is the call by p of LoadBlock or LoadCommit for height h.
CallsLoadByHeight(p, h) ==
    /\ pc[p] = "idle"
    /\ calls' = calls + 1
    /\ \/ pc'[p] \in {"lb_get", "lc_get"} /\ loc'[p].height = h
       \/ /\ pc' = pc
          /\ ret'.proc = p
          /\ ret'.op \in {"LoadBlock", "LoadCommit"}
          /\ ret'.arg = h

\* C11: a LoadBlock or LoadCommit of a height whose index entry holds a
\* value that is not 32 bytes long returns within its index step, so
\* without looking up a block or a commit, with an error whose cause is
\* the invalid-hash-length error and not the not-found error, with no
\* value, and leaves the datastore as it was.
C11_BadIndexLengthFails ==
    [][\A p \in Procs, h \in Heights :
          (/\ CallsLoadByHeight(p, h)
           /\ HasKey(IndexKeyOf[h])
           /\ Len(db[IndexKeyOf[h]]) # HashLen)
          => /\ pc' = pc
             /\ Is(ret'.err, ErrInvalidHashLength)
             /\ ~Is(ret'.err, ErrNotFound)
             /\ ret'.val = NoVal
             /\ db' = db]_vars

C11_Witness ==
    /\ ret.op = "LoadCommit"
    /\ Is(ret.err, ErrInvalidHashLength)
    /\ HasKey(IndexKeyOf[ret.arg])
    /\ Len(db[IndexKeyOf[ret.arg]]) = HashLen + 1
    /\ saved # << >>

\* The keys under which the datastore holds a chain state record.
StateRecords == {k \in DOMAIN db : StateUnmarshal(db[k]).err = Nil}

C13_NoTxnEngine ==
    [][/\ \A hash \in AllHashes :
             ~HasKey(BlockKeyOf[hash]) /\ ~HasKey(CommitKeyOf[hash])
       /\ \A h \in Heights : ~HasKey(IndexKeyOf[h])
       /\ \A p \in Procs :
             /\ pc'[p] # "sb_commit"
             /\ Returned(p, "SaveBlock")
                => /\ ret'.err = ErrUnsupported
                   /\ ret'.txn = "none"
                   /\ db' = db /\ written' = written /\ height' = height
             /\ ret'.proc = p /\ ret'.op # "SaveBlock" => ~Is(ret'.err, ErrUnsupported)
             /\ (\E op \in {"LoadBlock", "LoadCommit", "LoadBlockByHash",
                             "LoadCommitByHash"} : Returned(p, op))
                => Is(ret'.err, ErrNotFound)
             /\ (Returned(p, "SaveBlockResponses") /\ ret'.err = Nil)
                => ResponsesKeyOf[ret'.arg] \in DOMAIN db'
             /\ (Returned(p, "SaveValidators") /\ ret'.err = Nil)
                => ValidatorsKeyOf[ret'.arg] \in DOMAIN db'
             /\ (Returned(p, "UpdateState") /\ ret'.err = Nil)
                => StateKey \in DOMAIN db' /\ db'[StateKey] = StateMarshal(lastState')
             /\ (Returned(p, "LoadBlockResponses") /\ ResponsesKeyOf[ret'.arg] \in written)
                => ret'.err = Nil /\ ret'.val = ResponsesUnmarshal(db[ResponsesKeyOf[ret'.arg]]).val
             /\ (Returned(p, "LoadValidators") /\ ValidatorsKeyOf[ret'.arg] \in written)
                => ~Is(ret'.err, ErrNotFound)
             /\ (Returned(p, "LoadState") /\ pc[p] = "ls_store")
                => ret'.val.vals = loc[p].pbState.vals]_vars

C13_Witness ==
    /\ engine = "other"
    /\ ret.op = "SaveBlock"
    /\ ret.err = ErrUnsupported
    /\ HasKey(StateKey)
    /\ height > 0

\* The key a single-key write stores under, and the prefix of its class.
OwnKey(op, arg) ==
    IF op = "SaveBlockResponses" THEN ResponsesKeyOf[arg]
    ELSE IF op = "SaveValidators" THEN ValidatorsKeyOf[arg]
    ELSE StateKey
OwnPrefix(op) ==
    IF op = "SaveBlockResponses" THEN responsesPrefix
    ELSE IF op = "SaveValidators" THEN validatorsPrefix
    ELSE statePrefix

\* C14: a SaveBlockResponses, SaveValidators or UpdateState touches the
\* one key of its own class (and height) and nothing else: every other
\* entry of the datastore keeps its bytes, none is added or deleted, and
\* the counter is unchanged; when it succeeds its key is in the
\* datastore, whether or not a block exists at that height, and when it
\* fails the datastore is as it was.
C14_SingleKeyWriteFrame ==
    [][\A p \in Procs, op \in {"SaveBlockResponses", "SaveValidators", "UpdateState"} :
          Returned(p, op) =>
             LET k == OwnKey(op, ret'.arg)
             IN  /\ k = NewKey(OwnPrefix(op) \o SubSeq(k, 4, Len(k)))
                 /\ DOMAIN db \subseteq DOMAIN db'
                 /\ DOMAIN db' \subseteq DOMAIN db \cup {k}
                 /\ \A j \in DOMAIN db : j # k => db'[j] = db[j]
                 /\ ret'.err = Nil => k \in DOMAIN db'
                 /\ ret'.err # Nil => db' = db
                 /\ height' = height]_vars

\* A validator set was saved for a height without a block, next to a
\* stored block of another height.
C14_Witness ==
    /\ ret.op = "SaveValidators"
    /\ ret.err = Nil
    /\ ~HasKey(IndexKeyOf[ret.arg])
    /\ HasKey(ValidatorsKeyOf[ret.arg])
    /\ saved # << >>

\* C15: neither step of a SetHeight, nor a Height, changes the datastore
\* or reads it; a SetHeight whose height is not above the counter leaves
\* the counter as it is, and a SetHeight that changes the counter sets it
\* to its own height, which was above the counter; a Height returns the
\* counter.
C15_SetHeightOnlyRaises ==
    [][\A p \in Procs :
          /\ (pc[p] = "idle" /\ pc'[p] = "sh_cas")
             => /\ db' = db /\ written' = written /\ height' = height
                /\ loc'[p].storeHeight = height
          /\ (pc[p] = "sh_cas" /\ pc'[p] = "idle")
             => /\ db' = db /\ written' = written
                /\ Returned(p, "SetHeight")
                /\ loc[p].height <= height => height' = height
                /\ height' # height
                   => height' = loc[p].height /\ loc[p].height > height
          /\ Returned(p, "Height")
             => /\ db' = db /\ written' = written /\ height' = height
                /\ ret'.val = [h |-> height]]_vars

C15_Witness ==
    /\ ret.op = "SetHeight"
    /\ ret.arg < height
    /\ saved # << >>

\* The prefix of the keys of a record class.
PrefixOf(class) ==
    IF class = "block" THEN blockPrefix
    ELSE IF class = "commit" THEN commitPrefix
    ELSE IF class = "index" THEN indexPrefix
    ELSE IF class = "state" THEN statePrefix
    ELSE IF class = "responses" THEN responsesPrefix
    ELSE validatorsPrefix

\* C16: every derived key begins with the prefix of its class, and two
\* derived keys are equal, as the store's functions return them or as the
\* datastore keys made of them, only if they are of the same class and of
\* the same hash or height.
C16_KeysInjective ==
    \A a \in derived :
       /\ SubSeq(a.key, 1, Len(PrefixOf(a.class))) = PrefixOf(a.class)
       /\ \A b \in derived :
             (a.key = b.key \/ a.dsKey = b.dsKey) => (a.class = b.class /\ a.id = b.id)

\* The keys of two hashes whose hex digits, taken without padding, would
\* read the same.
C16_Witness ==
    \E a, b \in derived :
       /\ a.class = "block" /\ b.class = "block"
       /\ a.id[1] = 1 /\ a.id[2] = 16
       /\ b.id[1] = 17 /\ b.id[2] = 0

\* C17: a LoadState that returns an error leaves the counter as it was.
C17_FailedLoadStateKeepsHeight ==
    [][\A p \in Procs :
          (Returned(p, "LoadState") /\ ret'.err # Nil) => height' = height]_vars

\* The height of the block stored under a hash.
StoredHeight(hash) == BlockUnmarshal(db[BlockKeyOf[hash]]).val.header.height

\* C18 as stated: for every stored block, the index entry of its height
\* exists and holds its hash.
C18_StoredBlockIndexed ==
    \A hash \in AllHashes :
       HasKey(BlockKeyOf[hash]) =>
          /\ HasKey(IndexKeyOf[StoredHeight(hash)])
          /\ db[IndexKeyOf[StoredHeight(hash)]] = hash

\* C18 as amended: for every stored block, the index entry of its height
\* exists and holds the hash of the block of the last successful
\* SaveBlock for that height; the block under that hash is stored and
\* has that height.
C18_IndexHoldsLastSaved ==
    \A hash \in AllHashes :
       HasKey(BlockKeyOf[hash]) =>
          LET h == StoredHeight(hash)
          IN  /\ HasKey(IndexKeyOf[h])
              /\ LastAt(h) # NoVal
              /\ db[IndexKeyOf[h]] = HashOfHeader[LastAt(h).block.header]
              /\ HasKey(BlockKeyOf[db[IndexKeyOf[h]]])
              /\ StoredHeight(db[IndexKeyOf[h]]) = h

\* Two blocks of one height and different hashes are stored; the index
\* holds the hash of the second.
C18_Witness ==
    /\ Len(saved) = 2
    /\ saved[1].block.header.height = saved[2].block.header.height
    /\ saved[1].block.header # saved[2].block.header
    /\ HasKey(BlockKeyOf[HashOfHeader[saved[1].block.header]])
    /\ HasKey(BlockKeyOf[HashOfHeader[saved[2].block.header]])
    /\ db[IndexKeyOf[saved[1].block.header.height]] = HashOfHeader[saved[2].block.header]

\* The block and the commit a LoadBlock and a LoadCommit of height h find
\* in the datastore as it is.
PairAt(h) ==
    LET r == loadHashFromIndex(db, h)
    IN  [err |-> Append2(r.err, Append2(LoadBlockByHashResult(db, r.hash).err,
                                        LoadCommitByHashResult(db, r.hash).err)),
         block |-> LoadBlockByHashResult(db, r.hash).val,
         commit |-> LoadCommitByHashResult(db, r.hash).val]

\* C19: in every state, so also when all SaveBlock calls of an
\* interleaving have returned, for every height with an index entry the
\* block and the commit that LoadBlock and LoadCommit find are there,
\* decode, and are the block and the commit of one and the same
\* successful SaveBlock call for that height; and the last LoadBlock or
\* LoadCommit of such a height has returned, without error, the block or
\* the commit of a successful SaveBlock call for that height.
C19_LoadedPairFromOneCall ==
    /\ \A h \in Heights :
          HasKey(IndexKeyOf[h]) =>
             /\ PairAt(h).err = Nil
             /\ \E i \in 1 .. Len(saved) :
                   /\ saved[i].block = PairAt(h).block
                   /\ saved[i].commit = PairAt(h).commit
                   /\ saved[i].block.header.height = h
    /\ (ret.op = "LoadBlock" /\ HasKey(IndexKeyOf[ret.arg]))
       => /\ ret.err = Nil
          /\ \E i \in 1 .. Len(saved) :
                saved[i].block = ret.val /\ saved[i].block.header.height = ret.arg
    /\ (ret.op = "LoadCommit" /\ HasKey(IndexKeyOf[ret.arg]))
       => /\ ret.err = Nil
          /\ \E i \in 1 .. Len(saved) :
                saved[i].commit = ret.val /\ saved[i].block.header.height = ret.arg

\* Two SaveBlock calls stored different blocks and commits under one
\* hash, and a LoadCommit returned the commit of the second.
C19_Witness ==
    /\ Len(saved) = 2
    /\ saved[1].block.header = saved[2].block.header
    /\ saved[1].block.body # saved[2].block.body
    /\ saved[1].commit # saved[2].commit
    /\ \A p \in Procs : pc[p] = "idle"
    /\ ret.op = "LoadCommit"
    /\ ret.err = Nil
    /\ ret.val = saved[2].commit

====
